---- MODULE Spec2Model ----
(***************************************************************************)
(* The Clinical Records Store of the Healthcare Risk Platform: the seven   *)
(* tables declared in src/models.py and the rows a relational engine lets  *)
(* a create (INSERT) or an update (UPDATE) put into them.                  *)
(*                                                                         *)
(* A column value is modelled as an optional: the empty set is SQL NULL    *)
(* (Python None), a singleton {v} is the value v.  A row is a record of    *)
(* such optionals; a table is the sequence of its rows, the primary key    *)
(* (default uuid.uuid4, never reused) being the row's position.            *)
(***************************************************************************)
EXTENDS Integers, Sequences, FiniteSets

VARIABLES users, patients, vital_signs, lab_results, risk_assessments,
          alerts, interventions, result

tables == <<users, patients, vital_signs, lab_results, risk_assessments,
            alerts, interventions>>
vars == <<users, patients, vital_signs, lab_results, risk_assessments,
          alerts, interventions, result>>

\* Largest number of rows the store holds, all tables together.
MaxRows == 3

-----------------------------------------------------------------------------
(* Column values *)

None == {}
Some(v) == {v}
Opt(S) == {None} \cup {Some(v) : v \in S}

\* A column default (default=...) is used by an INSERT that gives no value.
WithDefault(v, d) == IF v = None THEN Some(d) ELSE v

\* Values a caller may submit.
Usernames == {"alice", "bob"}
Emails == {"a@h.org", "b@h.org"}
Hashes == {"pbkdf2"}
RoleInputs == {"admin", "nurse"}
Mrns == {"MRN1", "MRN2"}
Names == {"Ann"}
Times == {"t0"}
HeartRates == {-1, 0, 300, 301}
SystolicBps == {49, 50, 301}
DiastolicBps == {29, 200, 201}
TestNames == {"WBC"}
LabStatusInputs == {"completed"}
Titles == {"Sepsis"}
AlertStatusInputs == {"acknowledged", "resolved", "snoozed"}
InterventionTypes == {"dialysis"}

\* A Float column holds a number or NaN; PostgreSQL orders NaN above every
\* number and equal to itself.
Float(n) == [nan |-> FALSE, v |-> n]
NaN == [nan |-> TRUE, v |-> 0]
FloatLE(a, b) == IF b.nan THEN TRUE ELSE IF a.nan THEN FALSE ELSE a.v <= b.v
FloatGE(a, b) == FloatLE(b, a)
RiskScores == {Float(-1), Float(0), Float(100), Float(101), Float(150), NaN}

\* Ids a caller may submit as a reference to a row of target: the id of every
\* row it holds and one id that matches no row.
RefIds(target) == 1..(Len(target) + 1)

Rows == Len(users) + Len(patients) + Len(vital_signs) + Len(lab_results)
        + Len(risk_assessments) + Len(alerts) + Len(interventions)

Ids(table) == DOMAIN table

\* Outcome of a statement: committed, or refused with the engine's
\* integrity error and rolled back.
Outcome(valid) == IF valid THEN "ok" ELSE "IntegrityError"
\* Bug variant: the row is written although the statement is refused.
Insert_Unconditional(table, row, valid) == Append(table, row)
Insert(table, row, valid) == IF valid THEN Append(table, row) ELSE table
Replace(table, id, row, valid) == IF valid THEN [table EXCEPT ![id] = row] ELSE table

\* Bug variant: the column carries no foreign key.
ForeignKey_Undeclared(ref, target) == TRUE

\* db.ForeignKey(...): a non-NULL reference names a row of the target table.
ForeignKey(ref, target) == \A id \in ref : id \in Ids(target)

\* unique=True: no other row holds the same non-NULL value in the column.
Unique(table, id, col, v) ==
    \A other \in Ids(table) : other # id /\ v # None => table[other][col] # v

-----------------------------------------------------------------------------
(* users *)

\* is_active (default True) is a flag no constraint reads; it is modelled on
\* patients, where it behaves the same.
UserColumns == {"username", "email", "password_hash", "role"}

UserNotNull(row) ==
    /\ row.username # None
    /\ row.email # None
    /\ row.password_hash # None

\* Bug variant: unique=True is missing on email.
UserUnique_UsernameOnly(row, id) == Unique(users, id, "username", row.username)

UserUnique(row, id) ==
    /\ Unique(users, id, "username", row.username)
    /\ Unique(users, id, "email", row.email)

UserValid(row, id) == UserNotNull(row) /\ UserUnique(row, id)

NewUser(username, email, password_hash, role) ==
    [username |-> username, email |-> email, password_hash |-> password_hash,
     role |-> WithDefault(role, "viewer")]

UserValues(col) ==
    CASE col = "username" -> Opt(Usernames)
      [] col = "email" -> Opt(Emails)
      [] col = "password_hash" -> Opt(Hashes)
      [] col = "role" -> {Some(r) : r \in RoleInputs \cup {"viewer"}}

CreateUser ==
    /\ Rows < MaxRows
    /\ \E username \in Opt(Usernames), email \in Opt(Emails),
          password_hash \in Opt(Hashes), role \in Opt(RoleInputs) :
         LET row == NewUser(username, email, password_hash, role)
             valid == UserValid(row, Len(users) + 1)
         IN  /\ users' = Insert(users, row, valid)
             /\ result' = Outcome(valid)
    /\ UNCHANGED <<patients, vital_signs, lab_results, risk_assessments,
                   alerts, interventions>>

UpdateUser ==
    /\ \E id \in Ids(users), col \in UserColumns :
         \E v \in UserValues(col) :
           LET row == [users[id] EXCEPT ![col] = v]
               valid == UserValid(row, id)
           IN  /\ users' = Replace(users, id, row, valid)
               /\ result' = Outcome(valid)
    /\ UNCHANGED <<patients, vital_signs, lab_results, risk_assessments,
                   alerts, interventions>>

-----------------------------------------------------------------------------
(* patients *)

PatientColumns == {"mrn", "first_name", "is_active"}

\* last_name, date_of_birth and gender are nullable=False like first_name.
PatientNotNull(row) ==
    /\ row.mrn # None
    /\ row.first_name # None

\* Bug variant: unique=True is missing on mrn.
PatientUnique_Missing(row, id) == TRUE

PatientUnique(row, id) == Unique(patients, id, "mrn", row.mrn)

PatientValid(row, id) == PatientNotNull(row) /\ PatientUnique(row, id)

NewPatient(mrn, first_name) ==
    [mrn |-> mrn, first_name |-> first_name, is_active |-> Some(TRUE)]

PatientValues(col) ==
    CASE col = "mrn" -> Opt(Mrns)
      [] col = "first_name" -> Opt(Names)
      [] col = "is_active" -> {Some(FALSE), Some(TRUE)}

CreatePatient ==
    /\ Rows < MaxRows
    /\ \E mrn \in Opt(Mrns), first_name \in Opt(Names) :
         LET row == NewPatient(mrn, first_name)
             valid == PatientValid(row, Len(patients) + 1)
         IN  /\ patients' = Insert(patients, row, valid)
             /\ result' = Outcome(valid)
    /\ UNCHANGED <<users, vital_signs, lab_results, risk_assessments,
                   alerts, interventions>>

UpdatePatient ==
    /\ \E id \in Ids(patients), col \in PatientColumns :
         \E v \in PatientValues(col) :
           LET row == [patients[id] EXCEPT ![col] = v]
               valid == PatientValid(row, id)
           IN  /\ patients' = Replace(patients, id, row, valid)
               /\ result' = Outcome(valid)
    /\ UNCHANGED <<users, vital_signs, lab_results, risk_assessments,
                   alerts, interventions>>

-----------------------------------------------------------------------------
(* vital_signs *)

VitalColumns == {"patient_id", "measurement_time", "heart_rate", "systolic_bp",
                 "diastolic_bp"}

VitalNotNull(row) ==
    /\ row.patient_id # None
    /\ row.measurement_time # None

\* A CHECK constraint refuses a row only when its condition is false; on a
\* NULL column the condition is unknown and the row passes.
\* Bug variant: the upper limit of heart_rate is off by one.
VitalHeartRateCheck_OffByOne(row) == \A x \in row.heart_rate : x >= 0 /\ x <= 301
VitalHeartRateCheck(row) == \A x \in row.heart_rate : x >= 0 /\ x <= 300
\* Bug variant: the CHECK on systolic_bp also refuses a NULL.
VitalSystolicCheck_RefusesNull(row) == \E x \in row.systolic_bp : x >= 50 /\ x <= 300
VitalSystolicCheck(row) == \A x \in row.systolic_bp : x >= 50 /\ x <= 300
VitalDiastolicCheck(row) == \A x \in row.diastolic_bp : x >= 30 /\ x <= 200

VitalChecks(row) ==
    /\ VitalHeartRateCheck(row)
    /\ VitalSystolicCheck(row)
    /\ VitalDiastolicCheck(row)

VitalForeignKeys(row) == ForeignKey(row.patient_id, patients)

VitalValid(row) == VitalNotNull(row) /\ VitalChecks(row) /\ VitalForeignKeys(row)

NewVital(patient_id, heart_rate, systolic_bp, diastolic_bp) ==
    [patient_id |-> patient_id,
     measurement_time |-> Some("t0"),
     heart_rate |-> heart_rate, systolic_bp |-> systolic_bp,
     diastolic_bp |-> diastolic_bp]

VitalValues(col) ==
    CASE col = "patient_id" -> Opt(RefIds(patients))
      [] col = "measurement_time" -> Opt(Times)
      [] col = "heart_rate" -> Opt(HeartRates)
      [] col = "systolic_bp" -> Opt(SystolicBps)
      [] col = "diastolic_bp" -> Opt(DiastolicBps)

CreateVital ==
    /\ Rows < MaxRows
    /\ \E patient_id \in Opt(RefIds(patients)), heart_rate \in Opt(HeartRates),
          systolic_bp \in Opt(SystolicBps), diastolic_bp \in Opt(DiastolicBps) :
         LET row == NewVital(patient_id, heart_rate, systolic_bp, diastolic_bp)
             valid == VitalValid(row)
         IN  /\ vital_signs' = Insert(vital_signs, row, valid)
             /\ result' = Outcome(valid)
    /\ UNCHANGED <<users, patients, lab_results, risk_assessments, alerts,
                   interventions>>

UpdateVital ==
    /\ \E id \in Ids(vital_signs), col \in VitalColumns :
         \E v \in VitalValues(col) :
           LET row == [vital_signs[id] EXCEPT ![col] = v]
               valid == VitalValid(row)
           IN  /\ vital_signs' = Replace(vital_signs, id, row, valid)
               /\ result' = Outcome(valid)
    /\ UNCHANGED <<users, patients, lab_results, risk_assessments, alerts,
                   interventions>>

-----------------------------------------------------------------------------
(* lab_results *)

LabResultColumns == {"patient_id", "test_name", "test_date", "status"}

LabResultNotNull(row) ==
    /\ row.patient_id # None
    /\ row.test_name # None
    /\ row.test_date # None

LabResultForeignKeys(row) == ForeignKey(row.patient_id, patients)

LabResultValid(row) == LabResultNotNull(row) /\ LabResultForeignKeys(row)

NewLabResult(patient_id, test_name, test_date, status) ==
    [patient_id |-> patient_id, test_name |-> test_name, test_date |-> test_date,
     status |-> WithDefault(status, "pending")]

LabResultValues(col) ==
    CASE col = "patient_id" -> Opt(RefIds(patients))
      [] col = "test_name" -> Opt(TestNames)
      [] col = "test_date" -> Opt(Times)
      [] col = "status" -> {Some(st) : st \in LabStatusInputs \cup {"pending"}}

CreateLabResult ==
    /\ Rows < MaxRows
    /\ \E patient_id \in Opt(RefIds(patients)), test_name \in Opt(TestNames),
          test_date \in Opt(Times), status \in Opt(LabStatusInputs) :
         LET row == NewLabResult(patient_id, test_name, test_date, status)
             valid == LabResultValid(row)
         IN  /\ lab_results' = Insert(lab_results, row, valid)
             /\ result' = Outcome(valid)
    /\ UNCHANGED <<users, patients, vital_signs, risk_assessments, alerts,
                   interventions>>

UpdateLabResult ==
    /\ \E id \in Ids(lab_results), col \in LabResultColumns :
         \E v \in LabResultValues(col) :
           LET row == [lab_results[id] EXCEPT ![col] = v]
               valid == LabResultValid(row)
           IN  /\ lab_results' = Replace(lab_results, id, row, valid)
               /\ result' = Outcome(valid)
    /\ UNCHANGED <<users, patients, vital_signs, risk_assessments, alerts,
                   interventions>>

-----------------------------------------------------------------------------
(* risk_assessments *)

RiskAssessmentColumns == {"patient_id", "assessment_date", "risk_score",
                          "created_by"}

RiskAssessmentNotNull(row) ==
    /\ row.patient_id # None
    /\ row.assessment_date # None
    /\ row.risk_score # None

\* Bug variant: the CHECK on risk_score has no upper limit.
RiskAssessmentChecks_NoUpper(row) ==
    \A x \in row.risk_score : FloatGE(x, Float(0))

RiskAssessmentChecks(row) ==
    \A x \in row.risk_score : FloatGE(x, Float(0)) /\ FloatLE(x, Float(100))

RiskAssessmentForeignKeys(row) ==
    /\ ForeignKey(row.patient_id, patients)
    /\ ForeignKey(row.created_by, users)

RiskAssessmentValid(row) ==
    /\ RiskAssessmentNotNull(row)
    /\ RiskAssessmentChecks(row)
    /\ RiskAssessmentForeignKeys(row)

NewRiskAssessment(patient_id, risk_score, created_by) ==
    [patient_id |-> patient_id,
     assessment_date |-> Some("t0"),
     risk_score |-> risk_score, created_by |-> created_by]

RiskAssessmentValues(col) ==
    CASE col = "patient_id" -> Opt(RefIds(patients))
      [] col = "assessment_date" -> Opt(Times)
      [] col = "risk_score" -> Opt(RiskScores)
      [] col = "created_by" -> Opt(RefIds(users))

CreateRiskAssessment ==
    /\ Rows < MaxRows
    /\ \E patient_id \in Opt(RefIds(patients)), risk_score \in Opt(RiskScores),
          created_by \in Opt(RefIds(users)) :
         LET row == NewRiskAssessment(patient_id, risk_score, created_by)
             valid == RiskAssessmentValid(row)
         IN  /\ risk_assessments' = Insert(risk_assessments, row, valid)
             /\ result' = Outcome(valid)
    /\ UNCHANGED <<users, patients, vital_signs, lab_results, alerts,
                   interventions>>

UpdateRiskAssessment ==
    /\ \E id \in Ids(risk_assessments), col \in RiskAssessmentColumns :
         \E v \in RiskAssessmentValues(col) :
           LET row == [risk_assessments[id] EXCEPT ![col] = v]
               valid == RiskAssessmentValid(row)
           IN  /\ risk_assessments' = Replace(risk_assessments, id, row, valid)
               /\ result' = Outcome(valid)
    /\ UNCHANGED <<users, patients, vital_signs, lab_results, alerts,
                   interventions>>

-----------------------------------------------------------------------------
(* alerts *)

AlertColumns == {"patient_id", "title", "status",
                 "acknowledged_by", "acknowledged_at"}

\* alert_type is nullable=False like title.
AlertNotNull(row) ==
    /\ row.patient_id # None
    /\ row.title # None

\* Bug variant: acknowledged_by carries no foreign key.
AlertForeignKeys_PatientOnly(row) == ForeignKey(row.patient_id, patients)

AlertForeignKeys(row) ==
    /\ ForeignKey(row.patient_id, patients)
    /\ ForeignKey(row.acknowledged_by, users)

AlertValid(row) == AlertNotNull(row) /\ AlertForeignKeys(row)

NewAlert(patient_id, title, status, acknowledged_by, acknowledged_at) ==
    [patient_id |-> patient_id, title |-> title,
     status |-> WithDefault(status, "active"),
     acknowledged_by |-> acknowledged_by, acknowledged_at |-> acknowledged_at]

AlertValues(col) ==
    CASE col = "patient_id" -> Opt(RefIds(patients))
      [] col = "title" -> Opt(Titles)
      [] col = "status" -> {Some(st) : st \in AlertStatusInputs \cup {"active"}}
      [] col = "acknowledged_by" -> Opt(RefIds(users))
      [] col = "acknowledged_at" -> Opt(Times)

CreateAlert ==
    /\ Rows < MaxRows
    /\ \E patient_id \in Opt(RefIds(patients)),
          title \in Opt(Titles), status \in Opt(AlertStatusInputs),
          acknowledged_by \in Opt(RefIds(users)), acknowledged_at \in Opt(Times) :
         LET row == NewAlert(patient_id, title, status,
                             acknowledged_by, acknowledged_at)
             valid == AlertValid(row)
         IN  /\ alerts' = Insert(alerts, row, valid)
             /\ result' = Outcome(valid)
    /\ UNCHANGED <<users, patients, vital_signs, lab_results, risk_assessments,
                   interventions>>

UpdateAlert ==
    /\ \E id \in Ids(alerts), col \in AlertColumns :
         \E v \in AlertValues(col) :
           LET row == [alerts[id] EXCEPT ![col] = v]
               valid == AlertValid(row)
           IN  /\ alerts' = Replace(alerts, id, row, valid)
               /\ result' = Outcome(valid)
    /\ UNCHANGED <<users, patients, vital_signs, lab_results, risk_assessments,
                   interventions>>

-----------------------------------------------------------------------------
(* interventions *)

InterventionColumns == {"patient_id", "intervention_type", "intervention_date",
                        "clinician_id"}

InterventionNotNull(row) ==
    /\ row.patient_id # None
    /\ row.intervention_type # None
    /\ row.intervention_date # None

InterventionForeignKeys(row) ==
    /\ ForeignKey(row.patient_id, patients)
    /\ ForeignKey(row.clinician_id, users)

InterventionValid(row) == InterventionNotNull(row) /\ InterventionForeignKeys(row)

NewIntervention(patient_id, intervention_type, intervention_date, clinician_id) ==
    [patient_id |-> patient_id, intervention_type |-> intervention_type,
     intervention_date |-> intervention_date, clinician_id |-> clinician_id]

InterventionValues(col) ==
    CASE col = "patient_id" -> Opt(RefIds(patients))
      [] col = "intervention_type" -> Opt(InterventionTypes)
      [] col = "intervention_date" -> Opt(Times)
      [] col = "clinician_id" -> Opt(RefIds(users))

CreateIntervention ==
    /\ Rows < MaxRows
    /\ \E patient_id \in Opt(RefIds(patients)), intervention_type \in Opt(InterventionTypes),
          intervention_date \in Opt(Times), clinician_id \in Opt(RefIds(users)) :
         LET row == NewIntervention(patient_id, intervention_type,
                                    intervention_date, clinician_id)
             valid == InterventionValid(row)
         IN  /\ interventions' = Insert(interventions, row, valid)
             /\ result' = Outcome(valid)
    /\ UNCHANGED <<users, patients, vital_signs, lab_results, risk_assessments,
                   alerts>>

UpdateIntervention ==
    /\ \E id \in Ids(interventions), col \in InterventionColumns :
         \E v \in InterventionValues(col) :
           LET row == [interventions[id] EXCEPT ![col] = v]
               valid == InterventionValid(row)
           IN  /\ interventions' = Replace(interventions, id, row, valid)
               /\ result' = Outcome(valid)
    /\ UNCHANGED <<users, patients, vital_signs, lab_results, risk_assessments,
                   alerts>>

-----------------------------------------------------------------------------
Init ==
    /\ users = <<>>
    /\ patients = <<>>
    /\ vital_signs = <<>>
    /\ lab_results = <<>>
    /\ risk_assessments = <<>>
    /\ alerts = <<>>
    /\ interventions = <<>>
    /\ result = "ok"

\* Bug variant: the store also offers a physical delete of the newest alert.
DeleteAlert ==
    /\ Len(alerts) > 0
    /\ alerts' = SubSeq(alerts, 1, Len(alerts) - 1)
    /\ result' = "ok"
    /\ UNCHANGED <<users, patients, vital_signs, lab_results, risk_assessments,
                   interventions>>

Next_WithDelete ==
    \/ CreateUser
    \/ UpdateUser
    \/ CreatePatient
    \/ UpdatePatient
    \/ CreateVital
    \/ UpdateVital
    \/ CreateLabResult
    \/ UpdateLabResult
    \/ CreateRiskAssessment
    \/ UpdateRiskAssessment
    \/ CreateAlert
    \/ UpdateAlert
    \/ CreateIntervention
    \/ UpdateIntervention
    \/ DeleteAlert

\* The operations of the store: create and update of each entity type.  The
\* source declares the tables and offers no operation that deletes a row.
Next ==
    \/ CreateUser
    \/ UpdateUser
    \/ CreatePatient
    \/ UpdatePatient
    \/ CreateVital
    \/ UpdateVital
    \/ CreateLabResult
    \/ UpdateLabResult
    \/ CreateRiskAssessment
    \/ UpdateRiskAssessment
    \/ CreateAlert
    \/ UpdateAlert
    \/ CreateIntervention
    \/ UpdateIntervention

Spec == Init /\ [][Next]_vars

-----------------------------------------------------------------------------
(* Properties of the store *)

RowsOf(table) == {table[id] : id \in Ids(table)}

\* The rows of the five clinical tables, each with a patient_id.
ClinicalRows ==
    RowsOf(vital_signs) \cup RowsOf(lab_results) \cup RowsOf(risk_assessments)
    \cup RowsOf(alerts) \cup RowsOf(interventions)

\* C1 as stated: every stored Vital has a heart_rate in 0..300, a systolic_bp
\* in 50..300 and a diastolic_bp in 30..200.
C1_EveryVitalHasValuesInRange ==
    \A v \in RowsOf(vital_signs) :
        /\ \E x \in v.heart_rate : x \in 0..300
        /\ \E x \in v.systolic_bp : x \in 50..300
        /\ \E x \in v.diastolic_bp : x \in 30..200

\* C1 amended: in every stored Vital, heart_rate is unset or in 0..300,
\* systolic_bp is unset or in 50..300 and diastolic_bp is unset or in 30..200;
\* no create or update stores a value outside these ranges (such as 301).
C1_VitalValuesUnsetOrInRange ==
    \A v \in RowsOf(vital_signs) :
        /\ v.heart_rate \subseteq 0..300
        /\ v.systolic_bp \subseteq 50..300
        /\ v.diastolic_bp \subseteq 30..200

\* A Vital stored without a heart rate and with both pressures at a limit,
\* right after a statement was refused.
C1_Witness ==
    /\ result = "IntegrityError"
    /\ \E v \in RowsOf(vital_signs) :
         v.heart_rate = None /\ v.systolic_bp = Some(50) /\ v.diastolic_bp = Some(200)

\* C2: every stored RiskAssessment has a risk_score, a number from 0 to 100.
C2_RiskScorePresentAndInRange ==
    \A r \in RowsOf(risk_assessments) :
        /\ r.risk_score # None
        /\ \A x \in r.risk_score : ~x.nan /\ x.v >= 0 /\ x.v <= 100

\* A RiskAssessment stored with the score at its upper limit, right after a
\* statement was refused.
C2_Witness ==
    /\ result = "IntegrityError"
    /\ \E r \in RowsOf(risk_assessments) : r.risk_score = Some(Float(100))

\* C3: every Vital, LabResult, RiskAssessment, Alert and Intervention has a
\* patient_id, and it is the id of a Patient in the store.
C3_ClinicalRecordsReferenceAPatient ==
    \A r \in ClinicalRows :
        /\ r.patient_id # None
        /\ r.patient_id \subseteq Ids(patients)

\* A Vital and an Alert stored for a Patient, right after a statement was
\* refused.
C3_Witness ==
    /\ result = "IntegrityError"
    /\ Len(patients) = 1
    /\ Len(vital_signs) = 1
    /\ Len(alerts) = 1

\* C4: no two distinct Users share a username, and no two share an email.
C4_UsernameAndEmailUnique ==
    \A i, j \in Ids(users) :
        i # j => /\ users[i].username # users[j].username
                 /\ users[i].email # users[j].email

\* Two Users in the store, right after a statement was refused.
C4_Witness ==
    /\ result = "IntegrityError"
    /\ Len(users) = 2

\* C5: every Patient has an mrn and no two distinct Patients share one.
C5_MrnPresentAndUnique ==
    /\ \A i \in Ids(patients) : patients[i].mrn # None
    /\ \A i, j \in Ids(patients) : i # j => patients[i].mrn # patients[j].mrn

\* Two Patients in the store, right after a statement was refused.
C5_Witness ==
    /\ result = "IntegrityError"
    /\ Len(patients) = 2

\* C6: no step removes a record: in each of the seven tables the set of
\* stored ids only grows.
C6_RecordsNeverDeleted ==
    [][/\ Ids(users) \subseteq Ids(users')
       /\ Ids(patients) \subseteq Ids(patients')
       /\ Ids(vital_signs) \subseteq Ids(vital_signs')
       /\ Ids(lab_results) \subseteq Ids(lab_results')
       /\ Ids(risk_assessments) \subseteq Ids(risk_assessments')
       /\ Ids(alerts) \subseteq Ids(alerts')
       /\ Ids(interventions) \subseteq Ids(interventions')]_vars

\* A deactivated Patient whose resolved Alert is still in the store.
C6_Witness ==
    /\ \E p \in RowsOf(patients) : p.is_active = Some(FALSE)
    /\ \E a \in RowsOf(alerts) : a.status = Some("resolved")

\* C7: an Alert whose status is 'acknowledged' has acknowledged_by set to the
\* id of a User in the store and acknowledged_at set.
C7_AcknowledgedAlertNamesUserAndTime ==
    \A a \in RowsOf(alerts) :
        a.status = Some("acknowledged") =>
            /\ a.acknowledged_by # None
            /\ a.acknowledged_by \subseteq Ids(users)
            /\ a.acknowledged_at # None

\* C8: every Alert's status is 'active', 'acknowledged' or 'resolved'.
C8_AlertStatusInLifecycle ==
    \A a \in RowsOf(alerts) :
        a.status \in {Some("active"), Some("acknowledged"), Some("resolved")}

\* C9: every User's role is 'admin', 'clinician' or 'viewer'.
C9_UserRoleInRoles ==
    \A u \in RowsOf(users) :
        u.role \in {Some("admin"), Some("clinician"), Some("viewer")}

C11_UserAttributionReferencesAUser ==
    /\ \A r \in RowsOf(risk_assessments) : r.created_by \subseteq Ids(users)
    /\ \A i \in RowsOf(interventions) : i.clinician_id \subseteq Ids(users)
    /\ \A a \in RowsOf(alerts) : a.acknowledged_by \subseteq Ids(users)

\* An Alert acknowledged by a User of the store, right after a statement was
\* refused.
C11_Witness ==
    /\ result = "IntegrityError"
    /\ Len(users) = 1
    /\ \E a \in RowsOf(alerts) : a.acknowledged_by = Some(1)

\* C12: for every Patient in the store, a Vital that leaves heart_rate,
\* systolic_bp and diastolic_bp unset satisfies the constraints of vital_signs
\* and a RiskAssessment that leaves risk_score unset does not; no stored
\* RiskAssessment lacks a risk_score.
C12_RangeChecksApplyToPresentValuesOnly ==
    /\ \A p \in Ids(patients) :
         /\ VitalValid(NewVital(Some(p), None, None, None))
         /\ \A u \in Opt(Ids(users)) :
              ~RiskAssessmentValid(NewRiskAssessment(Some(p), None, u))
    /\ \A id \in Ids(risk_assessments) :
         Cardinality(risk_assessments[id].risk_score) = 1

\* A Vital stored with none of the three measurements, by the statement that
\* just committed, and a RiskAssessment in the store.
C12_Witness ==
    /\ result = "ok"
    /\ Len(risk_assessments) = 1
    /\ \E v \in RowsOf(vital_signs) :
         v.heart_rate = None /\ v.systolic_bp = None /\ v.diastolic_bp = None

====
